---- MODULE Spec2Model ----
(***************************************************************************)
(* R2Python.py: the line-oriented R -> Python (pandas) converter.          *)
(*                                                                         *)
(* Text is a sequence of one-character strings.  The regular expressions   *)
(* of the source are values (sequences of nodes) run by a backtracking     *)
(* matcher with the priorities of Python's re module: leftmost match,      *)
(* greedy and lazy repetition, capture groups, back-references, \b, ^, $.  *)
(* The alphabet is printable ASCII (but the backquote, which a TLA+ string  *)
(* cannot hold) plus the ASCII white space.                                *)
(***************************************************************************)
EXTENDS Integers, Sequences, FiniteSets, TLC

----------------------------------------------------------------------------
(* Characters *)

Lower == {"a","b","c","d","e","f","g","h","i","j","k","l","m",
          "n","o","p","q","r","s","t","u","v","w","x","y","z"}
Upper == {"A","B","C","D","E","F","G","H","I","J","K","L","M",
          "N","O","P","Q","R","S","T","U","V","W","X","Y","Z"}
Digit == {"0","1","2","3","4","5","6","7","8","9"}
\* \w
Word == Lower \cup Upper \cup Digit \cup {"_"}
\* \s
Space == {" ", "\t", "\n", "\r", "\f"}
Punct == {"!","\"","#","$","%","&","'","(",")","*","+",",","-",".","/",":",
          ";","<","=",">","?","@","[","\\","]","^","{","|","}","~"}
Alphabet == Word \cup Space \cup Punct
\* . (any character but the newline)
Dot == Alphabet \ {"\n"}
\* \S
NonSpace == Alphabet \ Space

LowerOf == [c \in Upper |->
  CASE c = "A" -> "a" [] c = "B" -> "b" [] c = "C" -> "c" [] c = "D" -> "d"
    [] c = "E" -> "e" [] c = "F" -> "f" [] c = "G" -> "g" [] c = "H" -> "h"
    [] c = "I" -> "i" [] c = "J" -> "j" [] c = "K" -> "k" [] c = "L" -> "l"
    [] c = "M" -> "m" [] c = "N" -> "n" [] c = "O" -> "o" [] c = "P" -> "p"
    [] c = "Q" -> "q" [] c = "R" -> "r" [] c = "S" -> "s" [] c = "T" -> "t"
    [] c = "U" -> "u" [] c = "V" -> "v" [] c = "W" -> "w" [] c = "X" -> "x"
    [] c = "Y" -> "y" [] c = "Z" -> "z"]
UpperOf == [c \in Lower |-> CHOOSE u \in Upper : LowerOf[u] = c]

\* str.lower()
StrLower(s) == [i \in 1..Len(s) |-> IF s[i] \in Upper THEN LowerOf[s[i]] ELSE s[i]]

\* str.upper()
StrUpper(s) == [i \in 1..Len(s) |-> IF s[i] \in Lower THEN UpperOf[s[i]] ELSE s[i]]

RECURSIVE LStrip(_)
\* str.lstrip()
LStrip(s) == IF Len(s) > 0 /\ s[1] \in Space THEN LStrip(Tail(s)) ELSE s

RECURSIVE RStrip(_)
\* str.rstrip()
RStrip(s) ==
  IF Len(s) > 0 /\ s[Len(s)] \in Space THEN RStrip(SubSeq(s, 1, Len(s) - 1)) ELSE s

\* str.strip()
Strip(s) == LStrip(RStrip(s))

RECURSIVE RStripNewline(_)
\* str.rstrip('\n')
RStripNewline(s) ==
  IF Len(s) > 0 /\ s[Len(s)] = "\n" THEN RStripNewline(SubSeq(s, 1, Len(s) - 1)) ELSE s

\* str.startswith(p)
StartsWith(s, p) == Len(s) >= Len(p) /\ SubSeq(s, 1, Len(p)) = p

\* str.endswith(p)
EndsWith(s, p) == Len(s) >= Len(p) /\ SubSeq(s, Len(s) - Len(p) + 1, Len(s)) = p

\* str.count(c) for a one-character c
Count(s, c) == Cardinality({i \in 1..Len(s) : s[i] = c})

\* str.replace(c, '') for a one-character c
RemoveChar(s, c) == SelectSeq(s, LAMBDA x : x # c)

RECURSIVE Split(_, _)
\* str.split(c) for a one-character c
Split(s, c) ==
  IF \A i \in 1..Len(s) : s[i] # c THEN <<s>>
  ELSE LET k == CHOOSE i \in 1..Len(s) : s[i] = c /\ \A j \in 1..(i - 1) : s[j] # c
       IN <<SubSeq(s, 1, k - 1)>> \o Split(SubSeq(s, k + 1, Len(s)), c)

RECURSIVE Join(_, _)
\* sep.join(parts)
Join(sep, parts) ==
  IF Len(parts) = 0 THEN <<>>
  ELSE IF Len(parts) = 1 THEN parts[1]
  ELSE parts[1] \o sep \o Join(sep, Tail(parts))

RECURSIVE Repeat(_, _)
\* s * n
Repeat(s, n) == IF n <= 0 THEN <<>> ELSE s \o Repeat(s, n - 1)

RECURSIVE ParseInt(_)
\* int(s) for a string of decimal digits
ParseInt(s) ==
  IF Len(s) = 0 THEN 0
  ELSE 10 * ParseInt(SubSeq(s, 1, Len(s) - 1))
       + (CHOOSE d \in 0..9 : <<"0","1","2","3","4","5","6","7","8","9">>[d + 1] = s[Len(s)])

RECURSIVE FormatInt(_)
\* str(n) for n >= 0
FormatInt(n) ==
  LET d == <<<<"0","1","2","3","4","5","6","7","8","9">>[(n % 10) + 1]>>
  IN IF n < 10 THEN d ELSE FormatInt(n \div 10) \o d

\* repr(s) of a str of printable ASCII
PyRepr(s) ==
  LET hasS == \E i \in 1..Len(s) : s[i] = "'"
      hasD == \E i \in 1..Len(s) : s[i] = "\""
      q == IF hasS /\ ~hasD THEN "\"" ELSE "'"
      Esc(c) == IF c = "\\" THEN <<"\\", "\\">>
                ELSE IF c = q THEN <<"\\", c>>
                ELSE IF c = "\n" THEN <<"\\", "n">>
                ELSE IF c = "\t" THEN <<"\\", "t">>
                ELSE IF c = "\r" THEN <<"\\", "r">>
                ELSE IF c = "\f" THEN <<"\\", "x", "0", "c">>
                ELSE <<c>>
      body[i \in 0..Len(s)] == IF i = 0 THEN <<>> ELSE body[i - 1] \o Esc(s[i])
  IN <<q>> \o body[Len(s)] \o <<q>>

----------------------------------------------------------------------------
(* Regular expressions (Python's re): a pattern is a sequence of nodes.     *)

\* one character of the set S
Set(S) == <<[t |-> "set", s |-> S]>>
\* [^...]
NotSet(S) == Set(Alphabet \ S)
\* a literal string
Lit(str) == [i \in 1..Len(str) |-> [t |-> "set", s |-> {str[i]}]]
\* a literal string under re.I
LitI(str) ==
  [i \in 1..Len(str) |->
     [t |-> "set",
      s |-> {str[i]} \cup (IF str[i] \in Lower THEN {UpperOf[str[i]]} ELSE {})
                     \cup (IF str[i] \in Upper THEN {LowerOf[str[i]]} ELSE {})]]
\* r*  and  r*?
Star(r) == <<[t |-> "star", r |-> r, lazy |-> FALSE]>>
LazyStar(r) == <<[t |-> "star", r |-> r, lazy |-> TRUE]>>
\* r+
Plus(r) == r \o Star(r)
\* r?
Opt(r) == <<[t |-> "opt", r |-> r]>>
\* a|b
Alt(a, b) == <<[t |-> "alt", a |-> a, b |-> b]>>
\* (r), capture group k
Grp(k, r) == <<[t |-> "open", n |-> k]>> \o r \o <<[t |-> "close", n |-> k]>>
\* \k
Ref(k) == <<[t |-> "ref", n |-> k]>>
\* \b, ^, $, \Z
Wb == <<[t |-> "wb"]>>
Bol == <<[t |-> "bol"]>>
Eol == <<[t |-> "eol"]>>
EndOfString == <<[t |-> "end"]>>

NoMatch == [ok |-> FALSE]
NoGroups == <<<<0, 0>>, <<0, 0>>, <<0, 0>>>>

\* \b at position i (before s[i])
AtWordBoundary(s, i) ==
  (i > 1 /\ s[i - 1] \in Word) # (i <= Len(s) /\ s[i] \in Word)

\* $ at position i: the end, or just before a final newline
AtEnd(s, i) == i = Len(s) + 1 \/ (i = Len(s) /\ s[i] = "\n")

\* The end of the run of characters of S that starts at position i
RunEnd(s, i, S) ==
  LET stops == {j \in i..Len(s) : s[j] \notin S}
  IN IF stops = {} THEN Len(s) + 1 ELSE CHOOSE j \in stops : \A k \in stops : j <= k

\* The smallest element of a non-empty set of positions
MinPos(S) == CHOOSE p \in S : \A q \in S : p <= q

\* The number of character sets the node sequence starts with
SetRun(nodes) ==
  IF \A j \in 1..Len(nodes) : nodes[j].t = "set" THEN Len(nodes)
  ELSE MinPos({j \in 1..Len(nodes) : nodes[j].t # "set"}) - 1

\* The largest element of a non-empty set of positions
MaxPos(S) == CHOOSE p \in S : \A q \in S : p >= q

\* The node is the repetition of one character set
IsSetStar(n) == n.t = "star" /\ Len(n.r) = 1 /\ n.r[1].t = "set"

RECURSIVE MatchAt(_, _, _, _)
\* The first match, in the matcher's order of preference, of the node
\* sequence at position i.  caps[k] = <<start, end>> of group k (end
\* exclusive), <<0, 0>> for a group that did not take part.
MatchAt(nodes, s, i, caps) ==
  CASE Len(nodes) = 0 -> [ok |-> TRUE, end |-> i, caps |-> caps]
    [] Len(nodes) > 0 /\ nodes[1].t = "set" ->
         \* the character sets the pattern goes on with, taken together
         IF i + SetRun(nodes) - 1 <= Len(s)
            /\ \A j \in 1..SetRun(nodes) : s[i + j - 1] \in nodes[j].s
         THEN MatchAt(SubSeq(nodes, SetRun(nodes) + 1, Len(nodes)), s,
                      i + SetRun(nodes), caps)
         ELSE NoMatch
    [] Len(nodes) > 0 /\ nodes[1].t = "open" ->
         MatchAt(Tail(nodes), s, i, [caps EXCEPT ![nodes[1].n] = <<i, 0>>])
    [] Len(nodes) > 0 /\ nodes[1].t = "close" ->
         MatchAt(Tail(nodes), s, i,
                 [caps EXCEPT ![nodes[1].n] = <<caps[nodes[1].n][1], i>>])
    [] Len(nodes) > 0 /\ IsSetStar(nodes[1]) ->
         \* a repeated character set: the rest of the pattern is tried
         \* after the longest run first (greedy) or the shortest (lazy)
         LET ends == {j \in i..RunEnd(s, i, nodes[1].r[1].s) :
                        MatchAt(Tail(nodes), s, j, caps).ok}
         IN IF ends = {} THEN NoMatch
            ELSE MatchAt(Tail(nodes), s,
                         IF nodes[1].lazy THEN MinPos(ends) ELSE MaxPos(ends), caps)
    [] Len(nodes) > 0 /\ nodes[1].t = "star" /\ ~IsSetStar(nodes[1]) ->
         IF nodes[1].lazy
         THEN IF MatchAt(Tail(nodes), s, i, caps).ok
              THEN MatchAt(Tail(nodes), s, i, caps)
              ELSE MatchAt(nodes[1].r \o nodes, s, i, caps)
         ELSE IF MatchAt(nodes[1].r \o nodes, s, i, caps).ok
              THEN MatchAt(nodes[1].r \o nodes, s, i, caps)
              ELSE MatchAt(Tail(nodes), s, i, caps)
    [] Len(nodes) > 0 /\ nodes[1].t = "opt" ->
         IF MatchAt(nodes[1].r \o Tail(nodes), s, i, caps).ok
         THEN MatchAt(nodes[1].r \o Tail(nodes), s, i, caps)
         ELSE MatchAt(Tail(nodes), s, i, caps)
    [] Len(nodes) > 0 /\ nodes[1].t = "alt" ->
         IF MatchAt(nodes[1].a \o Tail(nodes), s, i, caps).ok
         THEN MatchAt(nodes[1].a \o Tail(nodes), s, i, caps)
         ELSE MatchAt(nodes[1].b \o Tail(nodes), s, i, caps)
    [] Len(nodes) > 0 /\ nodes[1].t = "ref" ->
         \* the text of the group, again
         IF caps[nodes[1].n][1] > 0
            /\ i + (caps[nodes[1].n][2] - caps[nodes[1].n][1]) - 1 <= Len(s)
            /\ SubSeq(s, i, i + (caps[nodes[1].n][2] - caps[nodes[1].n][1]) - 1)
               = SubSeq(s, caps[nodes[1].n][1], caps[nodes[1].n][2] - 1)
         THEN MatchAt(Tail(nodes), s,
                      i + (caps[nodes[1].n][2] - caps[nodes[1].n][1]), caps)
         ELSE NoMatch
    [] Len(nodes) > 0 /\ nodes[1].t = "wb" ->
         IF AtWordBoundary(s, i) THEN MatchAt(Tail(nodes), s, i, caps) ELSE NoMatch
    [] Len(nodes) > 0 /\ nodes[1].t = "bol" ->
         IF i = 1 THEN MatchAt(Tail(nodes), s, i, caps) ELSE NoMatch
    [] Len(nodes) > 0 /\ nodes[1].t = "eol" ->
         IF AtEnd(s, i) THEN MatchAt(Tail(nodes), s, i, caps) ELSE NoMatch
    [] Len(nodes) > 0 /\ nodes[1].t = "end" ->
         IF i = Len(s) + 1 THEN MatchAt(Tail(nodes), s, i, caps) ELSE NoMatch

\* A match object: the result of MatchAt with the position it started at
MatchObject(m, start) ==
  [ok |-> TRUE, start |-> start, end |-> m.end, caps |-> m.caps]

\* The match that starts at the leftmost of the positions starts
LeftmostOf(re, s, starts) ==
  IF starts = {} THEN NoMatch
  ELSE MatchObject(MatchAt(re, s, MinPos(starts), NoGroups), MinPos(starts))

\* re.search from position pos: the leftmost match
SearchFrom(re, s, pos) ==
  LeftmostOf(re, s, {p \in pos..(Len(s) + 1) : MatchAt(re, s, p, NoGroups).ok})

\* re.search(re, s)
Search(re, s) == SearchFrom(re, s, 1)

\* The match object of a match found at position 1, NoMatch otherwise
AnchoredMatch(m) == IF m.ok THEN MatchObject(m, 1) ELSE NoMatch

\* re.fullmatch(re, s)
FullMatch(re, s) == AnchoredMatch(MatchAt(re \o EndOfString, s, 1, NoGroups))

\* m.group(k): the text of group k, <<>> for a group that did not take part
Group(s, m, k) == SubSeq(s, m.caps[k][1], m.caps[k][2] - 1)
\* m.group(k) is not None
HasGroup(m, k) == m.caps[k][1] > 0
\* m.group(0)
Whole(s, m) == SubSeq(s, m.start, m.end - 1)

RECURSIVE FindAllFrom(_, _, _)
\* The matches from position pos on, m being the next one
FindAllMatch(re, s, m) ==
  IF ~m.ok THEN <<>>
  ELSE <<m>> \o FindAllFrom(re, s, IF m.end > m.start THEN m.end ELSE m.start + 1)

\* re.findall(re, s): the matches, left to right
FindAllFrom(re, s, pos) == FindAllMatch(re, s, SearchFrom(re, s, pos))

RECURSIVE Replaced(_, _, _, _)
\* s from position pos on with each of the matches ms replaced
Replaced(Repl(_, _), s, ms, pos) ==
  IF ms = <<>> THEN SubSeq(s, pos, Len(s))
  ELSE SubSeq(s, pos, ms[1].start - 1) \o Repl(s, ms[1])
       \o Replaced(Repl, s, Tail(ms), ms[1].end)

\* re.sub(re, repl, s): every non-overlapping match, left to right, replaced
\* (the test has the subject computed before the search starts)
ReSub(re, Repl(_, _), s) ==
  IF Len(s) >= 0 THEN Replaced(Repl, s, FindAllFrom(re, s, 1), 1) ELSE s
----------------------------------------------------------------------------
(* Name normalization *)

\* to_snake_case with the repeated underscores collapsed first, before the
\* dots and hyphens have become underscores
to_snake_case_collapse_first(name) ==
  StrLower(
    ReSub(Set({".", "-"}), LAMBDA s, m : <<"_">>,
      ReSub(Grp(1, Set(Lower \cup Digit)) \o Grp(2, Set(Upper)),
            LAMBDA s, m : Group(s, m, 1) \o <<"_">> \o Group(s, m, 2),
        ReSub(Lit(<<"_">>) \o Plus(Lit(<<"_">>)), LAMBDA s, m : <<"_">>, name))))

\* The substitutions are applied innermost first, in the order of the source
to_snake_case(name) ==
  StrLower(
    \* __+  ->  _
    ReSub(Lit(<<"_">>) \o Plus(Lit(<<"_">>)), LAMBDA s, m : <<"_">>,
      \* ([a-z0-9])([A-Z])  ->  \1_\2
      ReSub(Grp(1, Set(Lower \cup Digit)) \o Grp(2, Set(Upper)),
            LAMBDA s, m : Group(s, m, 1) \o <<"_">> \o Group(s, m, 2),
        \* [\.-]  ->  _
        ReSub(Set({".", "-"}), LAMBDA s, m : <<"_">>, name))))

\* (\w+)\$(\w+(?:\.\w+)*)
ReDollarAccess ==
  Grp(1, Plus(Set(Word))) \o Lit(<<"$">>)
  \o Grp(2, Plus(Set(Word)) \o Star(Lit(<<".">>) \o Plus(Set(Word))))

snake_dotted_identifier(s, m) ==
  Group(s, m, 1) \o <<"[","\"">> \o to_snake_case(Group(s, m, 2)) \o <<"\"","]">>

----------------------------------------------------------------------------
(* Expression helpers *)

convert_seq_notation(text) ==
  LET D == Plus(Set(Digit))
      W == Star(Set(Space))
      \* \b(\d+)\s*:\s*(\d+)\b
      re_colon == Wb \o Grp(1, D) \o W \o Lit(<<":">>) \o W \o Grp(2, D) \o Wb
      py_colon(s, m) == <<"r","a","n","g","e","(">> \o Group(s, m, 1) \o <<","," ">>
                        \o FormatInt(ParseInt(Group(s, m, 2)) + 1) \o <<")">>
      \* \bseq\(\s*(\d+)\s*,\s*(\d+)\s*(?:,\s*(\d+)\s*)?\)
      re_seq == Wb \o Lit(<<"s","e","q","(">>) \o W \o Grp(1, D) \o W \o Lit(<<",">>) \o W \o Grp(2, D)
                \o W \o Opt(Lit(<<",">>) \o W \o Grp(3, D) \o W) \o Lit(<<")">>)
      _seq(s, m) ==
        <<"r","a","n","g","e","(">> \o Group(s, m, 1) \o <<","," ">>
        \o FormatInt(ParseInt(Group(s, m, 2)) + 1)
        \o (IF HasGroup(m, 3) /\ Len(Group(s, m, 3)) > 0
            THEN <<","," ">> \o Group(s, m, 3) ELSE <<>>)
        \o <<")">>
  IN ReSub(re_seq, _seq, ReSub(re_colon, py_colon, text))

\* The turn of the loop with a comma splitting at any depth
SplitStepAnyComma(st, ch) ==
  IF ch = "("
  THEN [st EXCEPT !.depth = st.depth + 1, !.buf = Append(st.buf, ch)]
  ELSE IF ch = ")"
  THEN [st EXCEPT !.depth = st.depth - 1, !.buf = Append(st.buf, ch)]
  ELSE IF ch = ","
  THEN [st EXCEPT !.parts = Append(st.parts, Strip(st.buf)), !.buf = <<>>]
  ELSE [st EXCEPT !.buf = Append(st.buf, ch)]

\* One turn of the loop of parse_c_vector over the characters of expr
\* (lines 87-98): st = [parts, buf, depth].
SplitStep(st, ch) ==
  IF ch = "("
  THEN [st EXCEPT !.depth = st.depth + 1, !.buf = Append(st.buf, ch)]
  ELSE IF ch = ")"
  THEN [st EXCEPT !.depth = st.depth - 1, !.buf = Append(st.buf, ch)]
  ELSE IF ch = "," /\ st.depth = 0
  THEN [st EXCEPT !.parts = Append(st.parts, Strip(st.buf)), !.buf = <<>>]
  ELSE [st EXCEPT !.buf = Append(st.buf, ch)]

\* parts, buf, depth before the loop (lines 85-86)
SplitStart == [parts |-> <<>>, buf |-> <<>>, depth |-> 0]

\* after the loop: the rest of the buffer is the last part (lines 99-100)
SplitFinish(st) ==
  IF Len(st.buf) > 0 THEN Append(st.parts, Strip(st.buf)) ELSE st.parts

RECURSIVE SplitLoop(_, _)
SplitLoop(st, expr) ==
  IF Len(expr) = 0 THEN st ELSE SplitLoop(SplitStep(st, Head(expr)), Tail(expr))

\* The parts parse_c_vector splits expr into (lines 85-100)
SplitTopLevel(expr) == SplitFinish(SplitLoop(SplitStart, expr))

\* (['\"]).*?\1
ReQuoted == Grp(1, Set({"'", "\""})) \o LazyStar(Set(Dot)) \o Ref(1)

\* names\(([^)]+)\)
ReNames == Lit(<<"n","a","m","e","s","(">>) \o Grp(1, Plus(NotSet({")"}))) \o Lit(<<")">>)

\* One part of a c(...) as Python (lines 103-116), mn being what
\* re.fullmatch(r"names\(([^)]+)\)", p) returned
VectorPartOf(p, mn) ==
  IF mn.ok THEN <<"*">> \o Strip(Group(p, mn, 1)) \o <<".","c","o","l","u","m","n","s",".","t","o","l","i","s","t","(",")">>
  ELSE IF FullMatch(ReQuoted, p).ok
  THEN PyRepr(to_snake_case(SubSeq(p, 2, Len(p) - 1)))
  ELSE to_snake_case(p)

VectorPart(p) == VectorPartOf(p, FullMatch(ReNames, p))

\* py_parts of the parts (lines 102-116)
VectorParts(parts) == [i \in 1..Len(parts) |-> VectorPart(parts[i])]

parse_c_vector(expr) ==
  <<"[">> \o Join(<<","," ">>, VectorParts(SplitTopLevel(expr))) \o <<"]">>

----------------------------------------------------------------------------
(* Condition / mask utilities *)

\* The substitutions are applied innermost first, in the order of the source
normalize_mask_operators(s0) ==
  LET W == Star(Set(Space))
      \* \b&&\b  and  \b\|\|\b
      re_and == Wb \o Lit(<<"&","&">>) \o Wb
      re_or == Wb \o Lit(<<"|","|">>) \o Wb
      \* !\s*is\.na\((.*?)\)
      re_notna == Lit(<<"!">>) \o W \o Lit(<<"i","s",".","n","a","(">>) \o Grp(1, LazyStar(Set(Dot))) \o Lit(<<")">>)
      \* is\.na\((.*?)\)
      re_isna == Lit(<<"i","s",".","n","a","(">>) \o Grp(1, LazyStar(Set(Dot))) \o Lit(<<")">>)
      \* !\s*\(
      re_notparen == Lit(<<"!">>) \o W \o Lit(<<"(">>)
      \* !\s*(\w+)
      re_notword == Lit(<<"!">>) \o W \o Grp(1, Plus(Set(Word)))
      \* (\[[^\]]*\]|\([^\)]*\)|\w+)
      Rhs == Grp(2, Alt(Lit(<<"[">>) \o Star(NotSet({"]"})) \o Lit(<<"]">>),
                        Alt(Lit(<<"(">>) \o Star(NotSet({")"})) \o Lit(<<")">>),
                            Plus(Set(Word)))))
      \* (\S+?)
      Lhs == Grp(1, Set(NonSpace) \o LazyStar(Set(NonSpace)))
      _in(s, m) == Strip(Group(s, m, 1)) \o <<".","i","s","i","n","(">> \o Strip(Group(s, m, 2)) \o <<")">>
      _nin(s, m) == <<"~">> \o Strip(Group(s, m, 1)) \o <<".","i","s","i","n","(">> \o Strip(Group(s, m, 2)) \o <<")">>
  IN ReSub(Lhs \o W \o Lit(<<"%","n","i","%">>) \o W \o Rhs, _nin,
       ReSub(Lhs \o W \o Lit(<<"%","i","n","%">>) \o W \o Rhs, _in,
         ReSub(ReDollarAccess, snake_dotted_identifier,
           ReSub(re_notword, LAMBDA s, m : <<"~">> \o Group(s, m, 1),
             ReSub(re_notparen, LAMBDA s, m : <<"~","(">>,
               ReSub(re_isna, LAMBDA s, m : Group(s, m, 1) \o <<".","i","s","n","a","(",")">>,
                 ReSub(re_notna, LAMBDA s, m : Group(s, m, 1) \o <<".","n","o","t","n","a","(",")">>,
                   ReSub(re_or, LAMBDA s, m : <<"|">>,
                     ReSub(re_and, LAMBDA s, m : <<"&">>, s0)))))))))

----------------------------------------------------------------------------
(* Handlers (the passes) *)

\* line.find(sub) >= 0
Contains(line, sub) ==
  \E i \in 1..(Len(line) - Len(sub) + 1) : SubSeq(line, i, i + Len(sub) - 1) = sub

handle_assignments(line) ==
  LET W == Star(Set(Space))
      \* \s*<-\s*  and then  \s*->\s*
  IN ReSub(W \o Lit(<<"-",">">>) \o W, LAMBDA s, m : <<" ","="," ">>,
           ReSub(W \o Lit(<<"<","-">>) \o W, LAMBDA s, m : <<" ","="," ">>, line))

handle_df_access(line) == ReSub(ReDollarAccess, snake_dotted_identifier, line)

handle_vector_and_seq(line) ==
  convert_seq_notation(
    \* c\(([^()]*)\)
    ReSub(Lit(<<"c","(">>) \o Grp(1, Star(NotSet({"(", ")"}))) \o Lit(<<")">>),
          LAMBDA s, m : parse_c_vector(Group(s, m, 1)), line))

handle_unique_rbind_cbind(line) ==
  LET Call(name) == Wb \o Lit(name) \o Lit(<<"(">>) \o Grp(1, LazyStar(Set(Dot))) \o Lit(<<")">>)
      \* \bunique\((.*?)\)  then  \brbind\((.*?)\)  then  \bcbind\((.*?)\)
  IN ReSub(Call(<<"c","b","i","n","d">>),
           LAMBDA s, m : <<"p","d",".","c","o","n","c","a","t","(","[">> \o Group(s, m, 1) \o <<"]",","," ","a","x","i","s","=","1",")">>,
       ReSub(Call(<<"r","b","i","n","d">>),
             LAMBDA s, m : <<"p","d",".","c","o","n","c","a","t","(","[">> \o Group(s, m, 1) \o <<"]",","," ","a","x","i","s","=","0",")">>,
         ReSub(Call(<<"u","n","i","q","u","e">>), LAMBDA s, m : Group(s, m, 1) \o <<".","u","n","i","q","u","e","(",")">>, line)))

RECURSIVE ReplaceAll(_, _, _)
\* re.sub(re.escape(old), new, s) for a non-empty old and a new without
\* backslashes: every occurrence of old, left to right
ReplaceAll(s, old, new) ==
  IF Len(s) < Len(old) THEN s
  ELSE IF SubSeq(s, 1, Len(old)) = old
  THEN new \o ReplaceAll(SubSeq(s, Len(old) + 1, Len(s)), old, new)
  ELSE <<Head(s)>> \o ReplaceAll(Tail(s), old, new)

\* The assignment to names(df) (lines 182-185), m being the match of
\* (\w+)\.columns\.tolist\(\)\s*=\s*(\[.*\]) in the line
rename_columns(line, m) ==
  IF m.ok
  THEN ReplaceAll(line, Whole(line, m),
                  Group(line, m, 1) \o <<".","c","o","l","u","m","n","s"," ","="," ">> \o Group(line, m, 2))
  ELSE line

\* handle_names_and_rename after its first substitution (lines 181-186)
rename_in(line) ==
  LET W == Star(Set(Space))
  IN rename_columns(line,
       Search(Grp(1, Plus(Set(Word))) \o Lit(<<".","c","o","l","u","m","n","s",".","t","o","l","i","s","t","(",")">>) \o W \o Lit(<<"=">>) \o W
              \o Grp(2, Lit(<<"[">>) \o Star(Set(Dot)) \o Lit(<<"]">>)), line))

handle_names_and_rename(line) ==
  rename_in(
    \* \bnames\((.*?)\)
    ReSub(Wb \o Lit(<<"n","a","m","e","s","(">>) \o Grp(1, LazyStar(Set(Dot))) \o Lit(<<")">>),
          LAMBDA s, m : Group(s, m, 1) \o <<".","c","o","l","u","m","n","s",".","t","o","l","i","s","t","(",")">>, line))

\* The substitutions are applied innermost first, in the order of the source
handle_listfiles_and_grep(line) ==
  LET W == Star(Set(Space))
      Q == Set({"'", "\""})
      AnyLazy == LazyStar(Set(Dot))
      \* list\.files\(\s*pattern\s*=\s*(['\"][^'\"]+['\"])\s*\)
      re_files == Lit(<<"l","i","s","t",".","f","i","l","e","s","(">>) \o W \o Lit(<<"p","a","t","t","e","r","n">>) \o W \o Lit(<<"=">>) \o W
                  \o Grp(1, Q \o Plus(NotSet({"'", "\""})) \o Q) \o W \o Lit(<<")">>)
      \* \bgrep\((.*?),(.*?)\)
      re_grep == Wb \o Lit(<<"g","r","e","p","(">>) \o Grp(1, AnyLazy) \o Lit(<<",">>) \o Grp(2, AnyLazy)
                 \o Lit(<<")">>)
      \* \bgrepl\((.*?),(.*?)\)
      re_grepl == Wb \o Lit(<<"g","r","e","p","l","(">>) \o Grp(1, AnyLazy) \o Lit(<<",">>) \o Grp(2, AnyLazy)
                  \o Lit(<<")">>)
      \* \bgsub\((.*?),(.*?),(.*?)\)
      re_gsub == Wb \o Lit(<<"g","s","u","b","(">>) \o Grp(1, AnyLazy) \o Lit(<<",">>) \o Grp(2, AnyLazy)
                 \o Lit(<<",">>) \o Grp(3, AnyLazy) \o Lit(<<")">>)
  IN ReSub(re_gsub,
           LAMBDA s, m : <<"r","e",".","s","u","b","(">> \o Group(s, m, 1) \o <<","," ">> \o Group(s, m, 2) \o <<","," ">>
                         \o Group(s, m, 3) \o <<")">>,
       ReSub(re_grepl,
             LAMBDA s, m : Group(s, m, 2) \o <<".","s","t","r",".","c","o","n","t","a","i","n","s","(">> \o Group(s, m, 1)
                           \o <<","," ","r","e","g","e","x","=","T","r","u","e",")">>,
         ReSub(re_grep,
               LAMBDA s, m : <<"[","x"," ","f","o","r"," ","x"," ","i","n"," ">> \o Group(s, m, 2) \o <<" ","i","f"," ","r","e",".","s","e","a","r","c","h","(">>
                             \o Group(s, m, 1) \o <<","," ","x",")","]">>,
           ReSub(re_files, LAMBDA s, m : <<"g","l","o","b",".","g","l","o","b","(">> \o Group(s, m, 1) \o <<")">>, line))))

\* The call of to_csv (lines 205-208), m being the match of write.csv(...)
write_csv(line, m) ==
  IF m.ok
  THEN Group(line, m, 1) \o <<".","t","o","_","c","s","v","(">> \o Group(line, m, 2) \o <<","," ","i","n","d","e","x","=">>
       \o (IF HasGroup(m, 3) /\ StrUpper(Group(line, m, 3)) = <<"F","A","L","S","E">>
           THEN <<"F","a","l","s","e">> ELSE <<"T","r","u","e">>)
       \o <<")">>
  ELSE line

\* handle_read_write_csv after its substitution (lines 204-209)
write_csv_in(line) ==
  LET W == Star(Set(Space))
      Q == Set({"'", "\""})
      \* write\.csv\(\s*(\w+)\s*,\s*(['\"][^'\"]+['\"])\s*
      \*   (?:,\s*row\.names\s*=\s*(TRUE|FALSE))?\s*\)     with re.I
  IN write_csv(line,
       Search(LitI(<<"w","r","i","t","e",".","c","s","v","(">>) \o W \o Grp(1, Plus(Set(Word))) \o W \o Lit(<<",">>) \o W
              \o Grp(2, Q \o Plus(NotSet({"'", "\""})) \o Q) \o W
              \o Opt(Lit(<<",">>) \o W \o LitI(<<"r","o","w",".","n","a","m","e","s">>) \o W \o Lit(<<"=">>) \o W
                     \o Grp(3, Alt(LitI(<<"T","R","U","E">>), LitI(<<"F","A","L","S","E">>))))
              \o W \o Lit(<<")">>), line))

handle_read_write_csv(line) ==
  write_csv_in(
    \* \bread\.csv\((.*?)\)
    ReSub(Wb \o Lit(<<"r","e","a","d",".","c","s","v","(">>) \o Grp(1, LazyStar(Set(Dot))) \o Lit(<<")">>),
          LAMBDA s, m : <<"p","d",".","r","e","a","d","_","c","s","v","(">> \o Group(s, m, 1) \o <<")">>, line))

handle_dates(line) ==
  \* dt\.date\.today\(\)\s*-[^\S\r\n]*(\d+)
  ReSub(Lit(<<"d","t",".","d","a","t","e",".","t","o","d","a","y","(",")">>) \o Star(Set(Space)) \o Lit(<<"-">>)
        \o Star(Set(Space \ {"\r", "\n"})) \o Grp(1, Plus(Set(Digit))),
        LAMBDA s, m : <<"d","t",".","d","a","t","e",".","t","o","d","a","y","(",")"," ","-"," ","d","t",".","t","i","m","e","d","e","l","t","a","(","d","a","y","s","=">> \o Group(s, m, 1) \o <<")">>,
    \* \bSys\.time\(\)\b
    ReSub(Wb \o Lit(<<"S","y","s",".","t","i","m","e","(",")">>) \o Wb, LAMBDA s, m : <<"d","t",".","d","a","t","e","t","i","m","e",".","n","o","w","(",")">>,
      \* \bSys\.Date\(\)\b
      ReSub(Wb \o Lit(<<"S","y","s",".","D","a","t","e","(",")">>) \o Wb, LAMBDA s, m : <<"d","t",".","d","a","t","e",".","t","o","d","a","y","(",")">>, line)))

\* The mask of a subset(...) (lines 223-227), m being the match of it
subset_mask(line, m) ==
  IF m.ok
  THEN Strip(Group(line, m, 1)) \o <<"[","(">>
       \o normalize_mask_operators(Strip(Group(line, m, 2))) \o <<")","]">>
  ELSE line

handle_subset(line) ==
  \* \bsubset\(([^,]+),\s*(.*)\)$
  subset_mask(line,
    Search(Wb \o Lit(<<"s","u","b","s","e","t","(">>) \o Grp(1, Plus(NotSet({","}))) \o Lit(<<",">>)
           \o Star(Set(Space)) \o Grp(2, Star(Set(Dot))) \o Lit(<<")">>) \o Eol, line))

\* A single quoted name gets brackets (lines 248-251)
bracket_single_name(cols) ==
  IF ~StartsWith(cols, <<"[">>) /\ FullMatch(ReQuoted, cols).ok
  THEN <<"[">> \o cols \o <<"]">> ELSE cols

\* The column selector of a subset (lines 244-251)
subset_cols(cols) ==
  LET W == Star(Set(Space))
      \* ^c\((.*)\)$
      re_c == Bol \o Lit(<<"c","(">>) \o Grp(1, Star(Set(Dot))) \o Lit(<<")">>) \o Eol
      \* (['\"])\s*([\w\.]+)\s*\1
      re_q == Grp(1, Set({"'", "\""})) \o W \o Grp(2, Plus(Set(Word \cup {"."})))
              \o W \o Ref(1)
  IN bracket_single_name(
       ReSub(re_q, LAMBDA t, q : PyRepr(to_snake_case(Group(t, q, 2))),
             ReSub(re_c, LAMBDA t, c : parse_c_vector(Group(t, c, 1)), cols)))

\* _repl of handle_square_bracket_subsets (lines 235-253)
subset_repl(df, rows, cols) ==
  (IF Len(rows) > 0 THEN df \o <<"[">> \o normalize_mask_operators(rows) \o <<"]">> ELSE df)
  \o (IF Len(cols) > 0 /\ cols \notin {<<"]">>, <<"N","U","L","L">>}
      THEN <<"[">> \o subset_cols(cols) \o <<"]">> ELSE <<>>)

handle_square_bracket_subsets(line) ==
  LET W == Star(Set(Space))
      AnyLazy == LazyStar(Set(Dot))
      \* (\w+)\s*\[\s*(.*?)\s*\,\s*(.*?)\s*\]
  IN ReSub(Grp(1, Plus(Set(Word))) \o W \o Lit(<<"[">>) \o W \o Grp(2, AnyLazy) \o W \o Lit(<<",">>)
           \o W \o Grp(3, AnyLazy) \o W \o Lit(<<"]">>),
           LAMBDA s, m : subset_repl(Group(s, m, 1), Group(s, m, 2), Group(s, m, 3)),
           line)

\* The bulk drop (lines 259-264), cols being the df$col found in the line
drop_columns(line, cols) ==
  \* =\s*NULL\b
  IF Search(Lit(<<"=">>) \o Star(Set(Space)) \o Lit(<<"N","U","L","L">>) \o Wb, line).ok /\ Len(cols) > 0
  THEN Group(line, cols[1], 1) \o <<".","d","r","o","p","(","c","o","l","u","m","n","s","=","[">>
       \o Join(<<","," ">>, [i \in 1..Len(cols) |->
                        PyRepr(to_snake_case(Group(line, cols[i], 2)))])
       \o <<"]",","," ","i","n","p","l","a","c","e","=","T","r","u","e",")">>
  ELSE line

handle_chained_null_drops(line) ==
  drop_columns(line, FindAllFrom(ReDollarAccess, line, 1))

\* The join type with the first flag test to succeed setting it
MergeHowFirstWins(txt) ==
  LET W == Star(Set(Space))
      Flag(name) == Search(Lit(name) \o W \o Lit(<<"=">>) \o W \o Lit(<<"T","R","U","E">>), txt).ok
  IN IF Flag(<<"a","l","l",".","x">>) THEN <<"l","e","f","t">>
     ELSE IF Flag(<<"a","l","l",".","y">>) THEN <<"r","i","g","h","t">>
     ELSE IF Flag(<<"a","l","l">>) THEN <<"o","u","t","e","r">>
     ELSE <<"i","n","n","e","r">>

\* The join type of handle_merge (lines 278-284): the last flag test to
\* succeed sets it.
MergeHow(txt) ==
  LET W == Star(Set(Space))
      Flag(name) == Search(Lit(name) \o W \o Lit(<<"=">>) \o W \o Lit(<<"T","R","U","E">>), txt).ok
      how0 == <<"i","n","n","e","r">>
      \* all\.x\s*=\s*TRUE
      how1 == IF Flag(<<"a","l","l",".","x">>) THEN <<"l","e","f","t">> ELSE how0
      \* all\.y\s*=\s*TRUE
      how2 == IF Flag(<<"a","l","l",".","y">>) THEN <<"r","i","g","h","t">> ELSE how1
      \* all\s*=\s*TRUE
  IN IF Flag(<<"a","l","l">>) THEN <<"o","u","t","e","r">> ELSE how2

\* The call of pd.merge that handle_merge writes (lines 274-308), m_lr
\* being the match of the first two arguments
merge_call(line, m_lr, on, left_on, right_on) ==
  <<"p","d",".","m","e","r","g","e","(">>
  \o Join(<<","," ">>,
          <<Strip(Group(line, m_lr, 1)),
            handle_square_bracket_subsets(Strip(Group(line, m_lr, 2))),
            <<"h","o","w","=","\"">> \o MergeHow(line) \o <<"\"">>>>
          \o (IF Len(on) > 0 THEN <<<<"o","n","=","\"">> \o on \o <<"\"">>>> ELSE <<>>)
          \o (IF Len(left_on) > 0 THEN <<<<"l","e","f","t","_","o","n","=","\"">> \o left_on \o <<"\"">>>> ELSE <<>>)
          \o (IF Len(right_on) > 0 THEN <<<<"r","i","g","h","t","_","o","n","=","\"">> \o right_on \o <<"\"">>>> ELSE <<>>))
  \o <<")">>

\* handle_merge once "merge(" is known to be in the line (lines 272-309)
merge_rewritten(line, m_lr, py) ==
  IF ~m_lr.ok THEN line
  ELSE \* merge\(.*\)   (py holds no backslash)
       ReSub(Lit(<<"m","e","r","g","e","(">>) \o Star(Set(Dot)) \o Lit(<<")">>), LAMBDA s, m : py, line)

handle_merge(line) ==
  LET W == Star(Set(Space))
      \* merge\(\s*([^,]+?)\s*,\s*([^,\)]+)\s*(?:,|\))
      re_lr == Lit(<<"m","e","r","g","e","(">>) \o W
               \o Grp(1, NotSet({","}) \o LazyStar(NotSet({","}))) \o W \o Lit(<<",">>)
               \o W \o Grp(2, Plus(NotSet({",", ")"}))) \o W
               \o Alt(Lit(<<",">>), Lit(<<")">>))
      \* <key>\s*=\s*(['\"])\s*([\w\.]+)\s*\1
      By(key) == Search(Lit(key) \o W \o Lit(<<"=">>) \o W \o Grp(1, Set({"'", "\""})) \o W
                        \o Grp(2, Plus(Set(Word \cup {"."}))) \o W \o Ref(1), line)
      Key(m) == IF m.ok THEN to_snake_case(Group(line, m, 2)) ELSE <<>>
  IN IF ~Contains(line, <<"m","e","r","g","e","(">>) THEN line
     ELSE merge_rewritten(line, Search(re_lr, line),
                          merge_call(line, Search(re_lr, line),
                                     Key(By(<<"b","y">>)), Key(By(<<"b","y",".","x">>)), Key(By(<<"b","y",".","y">>))))

\* The substitutions are applied innermost first, in the order of the source
handle_functions_and_controls(line) ==
  LET W == Star(Set(Space))
      AnyLazy == LazyStar(Set(Dot))
      Brace == Opt(Lit(<<"{">>))
      \* (\w+(?:\.\w+)*)\s*=\s*function\((.*?)\)\s*\{?
      re_def == Grp(1, Plus(Set(Word)) \o Star(Lit(<<".">>) \o Plus(Set(Word)))) \o W
                \o Lit(<<"=">>) \o W \o Lit(<<"f","u","n","c","t","i","o","n","(">>) \o Grp(2, AnyLazy) \o Lit(<<")">>)
                \o W \o Brace
      py_def(s, m) == <<"d","e","f"," ">> \o to_snake_case(Group(s, m, 1)) \o <<"(">>
                      \o Group(s, m, 2) \o <<")",":">>
      \* \belse if\s*\((.*?)\)\s*\{?
      re_elif == Wb \o Lit(<<"e","l","s","e"," ","i","f">>) \o W \o Lit(<<"(">>) \o Grp(1, AnyLazy) \o Lit(<<")">>)
                 \o W \o Brace
      py_elif(s, m) == <<"e","l","i","f"," ">> \o Group(s, m, 1) \o <<":">>
      \* \bif\s*\((.*?)\)\s*\{?
      re_if == Wb \o Lit(<<"i","f">>) \o W \o Lit(<<"(">>) \o Grp(1, AnyLazy) \o Lit(<<")">>)
               \o W \o Brace
      py_if(s, m) == <<"i","f"," ">> \o Group(s, m, 1) \o <<":">>
      \* \belse\s*\{?\b
      re_else == Wb \o Lit(<<"e","l","s","e">>) \o W \o Brace \o Wb
      py_else(s, m) == <<"e","l","s","e",":">>
      \* for\s*\((\w+)\s+in\s+(.*?)\)\s*\{?
      re_for == Lit(<<"f","o","r">>) \o W \o Lit(<<"(">>) \o Grp(1, Plus(Set(Word)))
                \o Plus(Set(Space)) \o Lit(<<"i","n">>) \o Plus(Set(Space))
                \o Grp(2, AnyLazy) \o Lit(<<")">>) \o W \o Brace
      py_for(s, m) == <<"f","o","r"," ">> \o Group(s, m, 1) \o <<" ","i","n"," ">> \o Group(s, m, 2) \o <<":">>
      \* while\s*\((.*?)\)\s*\{?
      re_while == Lit(<<"w","h","i","l","e">>) \o W \o Lit(<<"(">>) \o Grp(1, AnyLazy) \o Lit(<<")">>) \o W \o Brace
      py_while(s, m) == <<"w","h","i","l","e"," ">> \o Group(s, m, 1) \o <<":">>
      \* \bstop\((.*?)\)
      re_stop == Wb \o Lit(<<"s","t","o","p","(">>) \o Grp(1, AnyLazy) \o Lit(<<")">>)
      py_stop(s, m) == <<"r","a","i","s","e"," ","E","x","c","e","p","t","i","o","n","(">> \o Group(s, m, 1) \o <<")">>
      \* ^\s*if\s*\((.*?)\)\s*(.+)$
      re_single_if == Bol \o W \o Lit(<<"i","f">>) \o W \o Lit(<<"(">>) \o Grp(1, AnyLazy) \o Lit(<<")">>)
                      \o W \o Grp(2, Plus(Set(Dot))) \o Eol
      py_single_if(s, m) == <<"i","f"," ">> \o Group(s, m, 1) \o <<":">> \o <<"\n">> \o <<" "," "," "," ">>
                            \o Group(s, m, 2)
  IN ReSub(re_single_if, py_single_if,
       ReSub(re_stop, py_stop,
         ReSub(re_while, py_while,
           ReSub(re_for, py_for,
             ReSub(re_else, py_else,
               ReSub(re_if, py_if,
                 ReSub(re_elif, py_elif,
                   ReSub(re_def, py_def, line))))))))

handle_misc(line) ==
  LET W == Star(Set(Space))
  IN \* \[\s*(['\"])\s*([\w\.]+)\s*\1\s*\]
     ReSub(Lit(<<"[">>) \o W \o Grp(1, Set({"'", "\""})) \o W
           \o Grp(2, Plus(Set(Word \cup {"."}))) \o W \o Ref(1) \o W \o Lit(<<"]">>),
           LAMBDA s, m : <<"[">> \o PyRepr(to_snake_case(Group(s, m, 2))) \o <<"]">>, line)

----------------------------------------------------------------------------
(* Indentation manager *)

\* max(a, b)
Max(a, b) == IF a >= b THEN a ELSE b

\* The dedent without the floor at 0
DedentUnfloored(level, line) == level - Count(line, "}")

\* The level IndentState.apply writes the line at: dedent BEFORE writing
\* when there are closing braces (lines 347-348)
Dedent(level, line) == Max(level - Count(line, "}"), 0)

\* IndentState.apply: [out, level] for a state of level `level`
apply(level, line) ==
  LET lvl == Dedent(level, line)
      line_no_braces == RStrip(RemoveChar(RemoveChar(line, "{"), "}"))
      trimmed == Strip(line_no_braces)
      out == Repeat(<<" "," "," "," ">>, lvl) \o trimmed
  IN [out |-> out, level |-> IF EndsWith(trimmed, <<":">>) THEN lvl + 1 ELSE lvl]

----------------------------------------------------------------------------
(* Converter *)

\* self.passes[k - 1] applied to a line (lines 375-390)
Pass(k, line) ==
  CASE k = 1 -> handle_assignments(line)
    [] k = 2 -> handle_df_access(line)
    [] k = 3 -> handle_vector_and_seq(line)
    [] k = 4 -> handle_unique_rbind_cbind(line)
    [] k = 5 -> handle_names_and_rename(line)
    [] k = 6 -> handle_listfiles_and_grep(line)
    [] k = 7 -> handle_read_write_csv(line)
    [] k = 8 -> handle_dates(line)
    [] k = 9 -> handle_subset(line)
    [] k = 10 -> handle_square_bracket_subsets(line)
    [] k = 11 -> handle_chained_null_drops(line)
    [] k = 12 -> handle_merge(line)
    [] k = 13 -> handle_functions_and_controls(line)
    [] k = 14 -> handle_misc(line)

RECURSIVE ApplyPasses(_, _)
\* for fn in self.passes: line = fn(line)  (lines 401-402), from pass k on
\* (the test on the line has it computed before the next pass starts)
ApplyPasses(k, line) ==
  IF Len(line) >= 0 /\ k <= 14 THEN ApplyPasses(k + 1, Pass(k, line)) ELSE line

\* The line after all the passes
passes(line) == ApplyPasses(1, line)

\* What is left of transform_line once the passes have rewritten the raw
\* line into `line` (lines 394-419): [lines, level], the lines returned and
\* self.indent.level afterwards.
indent_line(level, raw, line) ==
  IF Len(Strip(raw)) = 0 THEN [lines |-> <<<<>>>>, level |-> level]
  ELSE IF StartsWith(LStrip(raw), <<"#">>)
  THEN [lines |-> <<RStripNewline(raw)>>, level |-> level]
  ELSE
    LET a == apply(level, line)
        lines == Split(a.out, "\n")
        \* if the first line ended with ':' the indent grows once more
        lvl == IF EndsWith(RStrip(lines[1]), <<":">>) THEN a.level + 1 ELSE a.level
    IN IF \E i \in 1..Len(a.out) : a.out[i] = "\n"
       THEN [lines |-> [idx \in 1..Len(lines) |->
                          IF idx = 1 THEN lines[1]
                          ELSE Repeat(<<" "," "," "," ">>, lvl) \o Strip(lines[idx])],
             level |-> lvl]
       ELSE [lines |-> <<a.out>>, level |-> a.level]

\* RToPythonConverter.transform_line
transform_line(level, raw) == indent_line(level, raw, passes(RStripNewline(raw)))

----------------------------------------------------------------------------
(* The converter at work.  A converter object (level) converts documents,  *)
(* one after the other, line by line; beside it a converter made for the   *)
(* document alone (solo), as convert_r_to_python makes one, is fed the     *)
(* same lines.  The other variables record what the lines were.            *)

\* The documents are made of these source lines
SourceLines ==
  << <<"i","f"," ","(","x",")"," ","{">>,
     <<"y"," ","<","-"," ","1">>,
     <<"}"," ","e","l","s","e"," ","{">>,
     <<"}">>,
     <<"i","f"," ","(","a"," ",">"," ","0",")"," ","{"," ","y"," ","<","-"," ","a","$","s","c","o","r","e"," ","}">>,
     <<"f","o","r"," ","(","i"," ","i","n"," ","1",":","3",")"," ","{"," ","s","t","o","p","(","\"","b","a","d","\"",")"," ","}">>,
     <<"d","f","$","a"," ","<","-"," ","d","f","$","b"," ","<","-"," ","N","U","L","L">>,
     <<"i","f"," ","(","x",")">>,
     <<"e","l","s","e"," ","{">>,
     <<"}"," ","e","l","s","e"," ","i","f"," ","(","c",")"," ","{">>,
     <<"f"," ","<","-"," ","f","u","n","c","t","i","o","n","(","a",")"," ","{">>,
     <<"i","f"," ","(","(","a",")",")"," ","y"," ","<","-"," ","1">>,
     <<"#"," ","n","o","t","e">>,
     <<>>,
     <<"}","}">> >>

\* A line as readlines() yields it
RawLine(i) == SourceLines[i] \o <<"\n">>

\* The source lines after the passes
Rewritten == [i \in 1..Len(SourceLines) |-> passes(RStripNewline(RawLine(i)))]

MaxLines == 4
MaxDocs == 2

VARIABLES
  phase,      \* the converter: "new" (constructed), "converting" (in convert()),
              \* "done" (convert() returned); to_snake_case: "given", "once",
              \* "twice"; handle_merge: "flags", "merged"; the splitting loop
              \* of parse_c_vector: "split", "result"
  indent,     \* self.indent.level of the converter object
  solo,       \* indent.level of the converter made for this document alone
  ndocs,      \* the calls of convert() on the converter object so far
  nlines,     \* the lines of this document read so far
  opened,     \* the lines ending in ':' the solo converter has emitted so far
  balance,    \* the '{' minus the '}' of the lines of this document so far
  prefix_ok,  \* no prefix of this document has had more '}' than '{'
  blocks,     \* the blocks open in the source: for each the depth of its header
  else_ok,    \* so far every else header stands at the depth of its if, and the
              \* line after it one level deeper
  last,       \* the last call of transform_line
  given,      \* to_snake_case: the name given
  once,       \* to_snake_case(name)
  twice,      \* to_snake_case(to_snake_case(name))
  flags,      \* handle_merge: the flags of the merge call, as indices of FlagTokens
  merged,     \* handle_merge of the line with these flags
  arg,        \* parse_c_vector: its argument expr
  read,       \* the characters of expr the loop has read
  loop,       \* parts, buf and depth in the loop
  result      \* parts after the loop

conv_vars ==
  <<indent, solo, ndocs, nlines, opened, balance, prefix_ok, blocks, else_ok, last>>
snake_vars == <<given, once, twice>>
merge_vars == <<flags, merged>>
split_vars == <<arg, read, loop, result>>
vars == <<phase, conv_vars, snake_vars, merge_vars, split_vars>>

\* The number of indentation units before an emitted line
IndentOf(line) == (Len(line) - Len(LStrip(line))) \div 4

\* The line is blank or a comment: transform_line returns early
IsBlankOrComment(raw) == Len(Strip(raw)) = 0 \/ StartsWith(LStrip(raw), <<"#">>)

\* The source line is an else / else if header:  ^\s*\}?\s*else\b
IsElseHeader(raw) ==
  MatchAt(Star(Set(Space)) \o Opt(Lit(<<"}">>)) \o Star(Set(Space)) \o Lit(<<"e","l","s","e">>) \o Wb,
          raw, 1, NoGroups).ok

\* The source line is an if / else if header:  ^\s*\}?\s*(else\s+)?if\s*\(
IsIfHeader(raw) ==
  MatchAt(Star(Set(Space)) \o Opt(Lit(<<"}">>)) \o Star(Set(Space))
          \o Opt(Lit(<<"e","l","s","e">>) \o Plus(Set(Space))) \o Lit(<<"i","f">>) \o Star(Set(Space))
          \o Lit(<<"(">>), raw, 1, NoGroups).ok

\* The source lines that are else headers, and those that are if headers
ElseHeaders == {i \in 1..Len(SourceLines) : IsElseHeader(RawLine(i))}
IfHeaders == {i \in 1..Len(SourceLines) : IsIfHeader(RawLine(i))}

\* No block
NoBlock == [depth |-> -1, by_if |-> FALSE]

\* No line yet
NoLine == [src |-> 0, before |-> 0, lines |-> <<>>, reused |-> <<>>,
           matched |-> -1, closed |-> NoBlock]

RECURSIVE Braces(_, _, _)
\* The blocks open after the braces of a source line, read left to right:
\* '{' opens the block b, '}' closes the innermost block
Braces(stack, chars, b) ==
  IF Len(chars) = 0 THEN stack
  ELSE IF Head(chars) = "{"
  THEN Braces(Append(stack, b), Tail(chars), b)
  ELSE IF Head(chars) = "}" /\ Len(stack) > 0
  THEN Braces(SubSeq(stack, 1, Len(stack) - 1), Tail(chars), b)
  ELSE Braces(stack, Tail(chars), b)

RECURSIVE NeverNegative(_, _)
\* Reading the braces left to right from a balance of bal, the '}' never
\* outnumber the '{'
NeverNegative(bal, chars) ==
  IF Len(chars) = 0 THEN TRUE
  ELSE LET b == bal + (IF Head(chars) = "{" THEN 1 ELSE IF Head(chars) = "}" THEN -1 ELSE 0)
       IN b >= 0 /\ NeverNegative(b, Tail(chars))

\* RToPythonConverter.__init__ (and IndentState's level: int = 0)
Construct ==
  /\ phase \in {"new", "done"}
  /\ phase' = "new"
  /\ indent' = 0
  /\ ndocs' = 0
  /\ UNCHANGED <<solo, nlines, opened, balance, prefix_ok, blocks, else_ok, last>>
  /\ UNCHANGED <<snake_vars, merge_vars, split_vars>>

\* convert() up to its loop: the file is read and out_lines holds the header
BeginConvert ==
  /\ phase \in {"new", "done"}
  /\ ndocs < MaxDocs
  /\ phase' = "converting"
  /\ ndocs' = ndocs + 1
  /\ solo' = 0
  /\ nlines' = 0
  /\ opened' = 0
  /\ balance' = 0
  /\ prefix_ok' = TRUE
  /\ blocks' = <<>>
  /\ else_ok' = TRUE
  /\ last' = NoLine
  /\ UNCHANGED <<indent, snake_vars, merge_vars, split_vars>>

\* What a call of transform_line leaves behind: raw is the source line i and
\* line what the passes made of it, top the innermost open block
Transformed(i, raw, line, top) ==
  LET \* what the converter object returns, and what the converter made for
      \* this document alone returns
      r == indent_line(indent, raw, line)
      s == indent_line(solo, raw, line)
      code == ~IsBlankOrComment(raw)
      \* the block this line goes on from: the one its leading '}' closes,
      \* or the one a lone '}' on the line before closed
      continued == IF StartsWith(Strip(raw), <<"}">>) THEN top ELSE last.closed
      matched == IF code /\ i \in ElseHeaders /\ continued.by_if
                 THEN continued.depth ELSE -1
      \* the depth the line stands at, and whether it is a line of a body
      at == IndentOf(s.lines[1])
      body == code /\ ~StartsWith(Strip(raw), <<"}">>)
      block == [depth |-> IF matched >= 0 THEN matched ELSE at,
                by_if |-> i \in IfHeaders]
  IN /\ indent' = r.level
     /\ solo' = s.level
     /\ opened' = opened
                   + Cardinality({k \in 1..Len(s.lines) : EndsWith(s.lines[k], <<":">>)})
     /\ balance' = IF code THEN balance + Count(raw, "{") - Count(raw, "}")
                    ELSE balance
     /\ prefix_ok' = (prefix_ok /\ (code => NeverNegative(balance, raw)))
     /\ blocks' = IF code THEN Braces(blocks, raw, block) ELSE blocks
     /\ else_ok' = (/\ else_ok
                     /\ (matched >= 0 => at = matched)
                     /\ ((last.matched >= 0 /\ body)
                           => at = IndentOf(last.lines[1]) + 1))
     /\ last' = [src |-> i, before |-> solo, lines |-> s.lines, reused |-> r.lines,
                 matched |-> matched,
                 closed |-> IF Strip(raw) = <<"}">> THEN top ELSE NoBlock]

\* One turn of the loop of convert(): transform_line on the next raw line
TransformLine(i) ==
  /\ phase = "converting"
  /\ nlines < MaxLines
  /\ Transformed(i, RawLine(i), Rewritten[i],
                 IF Len(blocks) > 0 THEN blocks[Len(blocks)] ELSE NoBlock)
  /\ nlines' = nlines + 1
  /\ UNCHANGED <<phase, ndocs, snake_vars, merge_vars, split_vars>>

\* convert() after its loop: the output is written
EndConvert ==
  /\ phase = "converting"
  /\ phase' = "done"
  /\ UNCHANGED <<conv_vars, snake_vars, merge_vars, split_vars>>

----------------------------------------------------------------------------
(* to_snake_case at work: a name is normalized, and the result again *)

NameChars == {"a", "B", ".", "-", "_", "1"}
MaxName == 3

\* The strings of at most n characters of S
Strings(S, n) == UNION {[1..k -> S] : k \in 0..n}

\* to_snake_case(name)
Normalize ==
  /\ phase = "given"
  /\ once' = to_snake_case(given)
  /\ phase' = "once"
  /\ UNCHANGED <<given, twice, conv_vars, merge_vars, split_vars>>

\* to_snake_case(to_snake_case(name))
NormalizeAgain ==
  /\ phase = "once"
  /\ twice' = to_snake_case(once)
  /\ phase' = "twice"
  /\ UNCHANGED <<given, once, conv_vars, merge_vars, split_vars>>

----------------------------------------------------------------------------
(* handle_merge at work: a merge call gets flags, then the line is rewritten *)

\* The flags a merge call may carry
FlagTokens ==
  << <<"a","l","l",".","x"," ","="," ","T","R","U","E">>, <<"a","l","l",".","y"," ","="," ","T","R","U","E">>, <<"a","l","l"," ","="," ","T","R","U","E">>, <<"b","y"," ","="," ","\"","i","d","\"">>, <<"s","o","r","t"," ","="," ","F","A","L","S","E">> >>
MaxFlags == 3

RECURSIVE FlagText(_)
\* The flags as they stand in the call, each after a comma
FlagText(fs) ==
  IF Len(fs) = 0 THEN <<>> ELSE <<","," ">> \o FlagTokens[Head(fs)] \o FlagText(Tail(fs))

\* The line with the merge call
MergeLine(fs) == <<"m","e","r","g","e","(","o","r","d","e","r","s",","," ","u","s","e","r","s">> \o FlagText(fs) \o <<")">>

\* The flag k stands in the call
HasFlag(k) == \E i \in 1..Len(flags) : flags[i] = k

\* One more flag is written into the call
AddFlag(k) ==
  /\ phase = "flags"
  /\ Len(flags) < MaxFlags
  /\ ~HasFlag(k)
  /\ flags' = Append(flags, k)
  /\ UNCHANGED <<phase, merged, conv_vars, snake_vars, split_vars>>

\* handle_merge(line)
Merge ==
  /\ phase = "flags"
  /\ merged' = handle_merge(MergeLine(flags))
  /\ phase' = "merged"
  /\ UNCHANGED <<flags, conv_vars, snake_vars, split_vars>>

----------------------------------------------------------------------------
(* The splitting loop of parse_c_vector at work, one character at a time *)

SplitChars == {"a", ",", "(", ")", " "}
MaxExpr == 4

\* One turn of the loop (lines 87-98)
SplitChar ==
  /\ phase = "split"
  /\ read < Len(arg)
  /\ loop' = SplitStep(loop, arg[read + 1])
  /\ read' = read + 1
  /\ UNCHANGED <<phase, arg, result, conv_vars, snake_vars, merge_vars>>

\* After the loop (lines 99-100)
SplitEnd ==
  /\ phase = "split"
  /\ read = Len(arg)
  /\ result' = SplitFinish(loop)
  /\ phase' = "result"
  /\ UNCHANGED <<arg, read, loop, conv_vars, snake_vars, merge_vars>>

----------------------------------------------------------------------------
(* Properties *)

\* The last call of transform_line was on the source line `text`
LastIs(text) ==
  phase = "converting" /\ last.src > 0 /\ SourceLines[last.src] = text

\* C1: after any sequence of lines fed to transform_line the level is never
\* negative, and it never exceeds 1 plus the number of emitted lines that
\* end in ':' so far.
LevelWithinBounds == indent >= 0 /\ solo >= 0 /\ solo <= 1 + opened

\* C1, its case: a line with two closing braces arrives at level 1 and the
\* level stops at 0
TwoClosesAtLevelOne == LastIs(<<"}","}">>) /\ last.before = 1 /\ solo = 0

\* C2: a document whose braces are balanced (no prefix with more '}' than
\* '{', totals equal) leaves the level at 0 after its last line, brace-less
\* control headers included.
EndsAtLevelZero == (phase = "done" /\ prefix_ok /\ balance = 0) => solo = 0

\* C3: every conversion starts at level 0, and a document converted after
\* another one by the same converter object gets exactly the lines it gets
\* when converted alone.
StartsAfresh ==
  /\ (phase = "converting" /\ nlines = 0) => indent = 0
  /\ (phase = "converting" /\ last.src > 0) => last.reused = last.lines

\* C4: 'if (a > 0) { y <- a$score }' read at level d is emitted as the
\* header 'if a > 0:' at level d and the body 'y = a["score"]' at level d + 1.
OneLineIfInTwoLines ==
  LastIs(<<"i","f"," ","(","a"," ",">"," ","0",")"," ","{"," ","y"," ","<","-"," ","a","$","s","c","o","r","e"," ","}">>) =>
    last.lines = << Repeat(<<" "," "," "," ">>, last.before) \o <<"i","f"," ","a"," ",">"," ","0",":">>,
                    Repeat(<<" "," "," "," ">>, last.before + 1) \o <<"y"," ","="," ","a","[","\"","s","c","o","r","e","\"","]">> >>

\* C5: 'for (i in 1:3) { stop("bad") }' read at level d is emitted as the
\* header 'for i in range(1, 4):' at level d and 'raise Exception("bad")'
\* one unit deeper.
ForRangeInTwoLines ==
  LastIs(<<"f","o","r"," ","(","i"," ","i","n"," ","1",":","3",")"," ","{"," ","s","t","o","p","(","\"","b","a","d","\"",")"," ","}">>) =>
    last.lines = << Repeat(<<" "," "," "," ">>, last.before) \o <<"f","o","r"," ","i"," ","i","n"," ","r","a","n","g","e","(","1",","," ","4",")",":">>,
                    Repeat(<<" "," "," "," ">>, last.before + 1) \o <<"r","a","i","s","e"," ","E","x","c","e","p","t","i","o","n","(","\"","b","a","d","\"",")">> >>

\* C6: 'df$a <- df$b <- NULL', after all the passes, is emitted as one
\* bulk removal naming the fields a and b, never as assignments of NULL.
ChainedNullIsOneDrop ==
  LastIs(<<"d","f","$","a"," ","<","-"," ","d","f","$","b"," ","<","-"," ","N","U","L","L">>) =>
    /\ Len(last.lines) = 1
    /\ Contains(last.lines[1], <<"d","r","o","p","(">>)
    /\ Contains(last.lines[1], <<"a">>)
    /\ Contains(last.lines[1], <<"b">>)
    /\ ~Contains(last.lines[1], <<"N","U","L","L">>)

\* C10: in a document with balanced braces every else / else if header is
\* emitted at the level of the if header whose block it continues, and the
\* line after it one level deeper.
ElseAtLevelOfIf == (phase = "done" /\ prefix_ok /\ balance = 0) => else_ok

----------------------------------------------------------------------------
(* Properties of handle_merge *)

\* how= as the claim has it: all.x first, then all.y, then all
ClaimedHow ==
  IF HasFlag(1) THEN <<"l","e","f","t">>
  ELSE IF HasFlag(2) THEN <<"r","i","g","h","t">>
  ELSE IF HasFlag(3) THEN <<"o","u","t","e","r">>
  ELSE <<"i","n","n","e","r">>

\* how= with all first, then all.y, then all.x
AmendedHow ==
  IF HasFlag(3) THEN <<"o","u","t","e","r">>
  ELSE IF HasFlag(2) THEN <<"r","i","g","h","t">>
  ELSE IF HasFlag(1) THEN <<"l","e","f","t">>
  ELSE <<"i","n","n","e","r">>

\* The rewritten line joins orders and users with how=h
JoinsWith(h) ==
  /\ StartsWith(merged, <<"p","d",".","m","e","r","g","e","(","o","r","d","e","r","s",","," ","u","s","e","r","s",","," ","h","o","w","=","\"">> \o h \o <<"\"">>)
  /\ Count(merged, "=") = 1 + (IF HasFlag(4) THEN 1 ELSE 0)

\* C7 as stated: for every combination of the flags the emitted how= is
\* left if all.x is set, else right if all.y is set, else outer if all is
\* set, else inner.
LeftFirstPrecedence == phase = "merged" => JoinsWith(ClaimedHow)

\* C7 as amended: for every combination of the flags the emitted how= is
\* outer if all is set, else right if all.y is set, else left if all.x is
\* set, else inner.
OuterFirstPrecedence == phase = "merged" => JoinsWith(AmendedHow)

\* C7, its case: all.x and all.y without all give how="right"
LeftAndRightGiveRight ==
  /\ phase = "merged"
  /\ HasFlag(1) /\ HasFlag(2) /\ ~HasFlag(3)
  /\ JoinsWith(<<"r","i","g","h","t">>)

----------------------------------------------------------------------------
(* Properties of the splitting loop of parse_c_vector *)

\* The '(' minus the ')' before position k of e
DepthBefore(e, k) ==
  Cardinality({j \in 1..(k - 1) : e[j] = "("})
    - Cardinality({j \in 1..(k - 1) : e[j] = ")"})

\* The parentheses of e are balanced
Balanced(e) ==
  /\ DepthBefore(e, Len(e) + 1) = 0
  /\ \A k \in 1..(Len(e) + 1) : DepthBefore(e, k) >= 0

\* The commas of e with as many '(' as ')' before them
Cuts(e) == {k \in 1..Len(e) : e[k] = "," /\ DepthBefore(e, k) = 0}

\* The j-th of the cuts, from the left
Cut(e, j) == CHOOSE c \in Cuts(e) : Cardinality({d \in Cuts(e) : d < c}) = j - 1

\* The text between the cut j - 1 and the cut j
Segment(e, j) ==
  SubSeq(e, IF j = 1 THEN 1 ELSE Cut(e, j - 1) + 1,
            IF j = Cardinality(Cuts(e)) + 1 THEN Len(e) ELSE Cut(e, j) - 1)

\* The segments between the cuts, stripped; the last one only if not empty
PartsAtCuts(e) ==
  [j \in 1..(Cardinality(Cuts(e))
              + (IF Len(Segment(e, Cardinality(Cuts(e)) + 1)) > 0 THEN 1 ELSE 0))
     |-> Strip(Segment(e, j))]

\* C8 as stated: the loop splits only at the commas of depth 0, and a text
\* with unbalanced parentheses comes back whole, as the only part.
UnbalancedComesBackWhole ==
  phase = "result" =>
    IF Balanced(arg) THEN result = PartsAtCuts(arg)
    ELSE result = <<Strip(arg)>>

\* C8 as amended: the loop splits at exactly the commas that have as many
\* '(' as ')' before them, whether the parentheses of the text are balanced
\* or not; an unbalanced text is split like any other.
SplitsAtDepthZeroCommas == phase = "result" => result = PartsAtCuts(arg)

\* C8, its case: the unbalanced text 'a,(' is split into 'a' and '('
UnbalancedIsSplit ==
  phase = "result" /\ arg = <<"a",",","(">> /\ ~Balanced(arg) /\ result = <<<<"a">>, <<"(">>>>

----------------------------------------------------------------------------
(* Properties of to_snake_case *)

\* C9: to_snake_case returns a string for every string, the empty one
\* included, and to_snake_case(to_snake_case(x)) = to_snake_case(x).
SnakeCaseIdempotent ==
  /\ phase \in {"once", "twice"} => once \in Seq(NameChars \cup Lower)
  /\ phase = "twice" => twice = once

\* C9, its case: 'aB.' becomes 'a_b_', and stays so
SnakeCaseSettles ==
  phase = "twice" /\ given = <<"a","B",".">> /\ once = <<"a","_","b","_">> /\ twice = <<"a","_","b","_">>

----------------------------------------------------------------------------
(* Specifications *)

\* The converter before any conversion, but for phase
ConvIdle ==
  /\ indent = 0
  /\ solo = 0
  /\ ndocs = 0
  /\ nlines = 0
  /\ opened = 0
  /\ balance = 0
  /\ prefix_ok = TRUE
  /\ blocks = <<>>
  /\ else_ok = TRUE
  /\ last = NoLine

SnakeIdle == given = <<>> /\ once = <<>> /\ twice = <<>>
MergeIdle == flags = <<>> /\ merged = <<>>
SplitIdle == arg = <<>> /\ read = 0 /\ loop = SplitStart /\ result = <<>>

Init == phase = "new" /\ ConvIdle /\ SnakeIdle /\ MergeIdle /\ SplitIdle

Next ==
  \/ Construct
  \/ BeginConvert
  \/ \E i \in 1..Len(SourceLines) : TransformLine(i)
  \/ EndConvert

\* A converter object converting documents
Spec == Init /\ [][Next]_vars

SnakeInit ==
  /\ phase = "given"
  /\ given \in Strings(NameChars, MaxName)
  /\ once = <<>>
  /\ twice = <<>>
  /\ ConvIdle /\ MergeIdle /\ SplitIdle

SnakeNext == Normalize \/ NormalizeAgain

\* to_snake_case on every name of the bounded set
SpecSnake == SnakeInit /\ [][SnakeNext]_vars

MergeInit == phase = "flags" /\ MergeIdle /\ ConvIdle /\ SnakeIdle /\ SplitIdle

MergeNext == (\E k \in 1..Len(FlagTokens) : AddFlag(k)) \/ Merge

\* handle_merge on every merge call of the bounded set
SpecMerge == MergeInit /\ [][MergeNext]_vars

SplitInit ==
  /\ phase = "split"
  /\ arg \in Strings(SplitChars, MaxExpr)
  /\ read = 0
  /\ loop = SplitStart
  /\ result = <<>>
  /\ ConvIdle /\ SnakeIdle /\ MergeIdle

SplitNext == SplitChar \/ SplitEnd

\* The splitting loop on every text of the bounded set
SpecSplit == SplitInit /\ [][SplitNext]_vars
====
